---- MODULE Spec2Model ----
(***************************************************************************)
(* Model of the migration scripts of rove-to/near-smart-contracts and of   *)
(* the manager/invoker classes they drive (RockNFTCollectionHolder,        *)
(* EnvironmentNFT).  One run of a script is: process start (Launch), the   *)
(* network guard (Guard), argument resolution (Resolve), the awaited       *)
(* method call (Call) and the final log line (Report).  The chain and the  *)
(* SDK (near-api-js) are the environment: every remote step either         *)
(* succeeds, when the chain allows it, or fails.                           *)
(*                                                                         *)
(* near.config.js names a free identifier keyStore in its mainnet and      *)
(* betanet profiles; the model starts after module load and takes that     *)
(* identifier as bound to a key-store object (the only binding under which *)
(* any script body runs).  The testnet profile carries a path string and   *)
(* the localnet profile carries no key store, as written in the file.      *)
(***************************************************************************)
EXTENDS Integers, Sequences, FiniteSets, TLC

VARIABLES
    pc,         \* position of the running script: idle, guard, args, call, report, done
    script,     \* the script being run
    env,        \* process.env
    argv,       \* process.argv from index 2 on (argv[1] here is process.argv[2])
    now,        \* (new Date()).getTime() of this process
    params,     \* the values the script resolved from argv and env
    calls,      \* SDK / key-store operations attempted by this run, in order
    out,        \* console.log lines of this run
    last,       \* the method invocation of this run and how it ended
    accounts,   \* accounts that exist on-chain: <<network id, account id>>
    deployed,   \* accounts that hold contract code
    keys,       \* the key-store object: <<network id, account id>> -> keypair
    nextKey,    \* the next keypair KeyPair.fromRandom produces
    runs        \* processes started so far

vars == <<pc, script, env, argv, now, params, calls, out, last,
          accounts, deployed, keys, nextKey, runs>>

----------------------------------------------------------------------------
(* Bounds *)

MaxRuns == 2
MaxClock == 2

----------------------------------------------------------------------------
(* JavaScript values: undefined, strings, numbers (NaN included) *)

Undefined == [t |-> "undefined", v |-> ""]

Str(s) == [t |-> "string", v |-> s]

Num(s) == [t |-> "number", v |-> s]

NaN == Num("NaN")

\* ToBoolean: undefined, "", 0 and NaN are falsy
Truthy(x) ==
    /\ x.t # "undefined"
    /\ ~(x.t = "string" /\ x.v = "")
    /\ ~(x.t = "number" /\ x.v \in {"0", "NaN"})

\* a ?? b: only undefined gives way to b
Nullish(a, b) == IF a.t # "undefined" THEN a ELSE b

\* a || b
Or(a, b) == IF Truthy(a) THEN a ELSE b

\* template literal / string concatenation of a value
Text(x) == IF x.t = "undefined" THEN "undefined" ELSE x.v

\* process.argv[i], i >= 2
Arg(i) == IF i - 1 \in 1..Len(argv) THEN Str(argv[i - 1]) ELSE Undefined

----------------------------------------------------------------------------
(* near.config.js *)

\* names every object literal inherits from Object.prototype
ObjectPrototypeKeys == {"constructor", "toString", "valueOf", "hasOwnProperty"}

\* nearConfig[network]: an own profile, an inherited member, or undefined
NearConfig(network) ==
    LET k == Text(network) IN
    CASE k = "testnet" -> [kind |-> "profile", networkId |-> "testnet", keyStore |-> "path"]
      [] k = "mainnet" -> [kind |-> "profile", networkId |-> "mainnet", keyStore |-> "store"]
      [] k = "betanet" -> [kind |-> "profile", networkId |-> "betanet", keyStore |-> "store"]
      [] k = "localnet" -> [kind |-> "profile", networkId |-> "local", keyStore |-> "undefined"]
      [] k \in ObjectPrototypeKeys ->
            [kind |-> "inherited", networkId |-> "undefined", keyStore |-> "undefined"]
      [] OTHER -> [kind |-> "undefined", networkId |-> "undefined", keyStore |-> "undefined"]

\* the identifiers near.config.js has an entry for
NetworkEntries == {"testnet", "mainnet", "betanet", "localnet"}

\* !config
Falsy(config) == config.kind = "undefined"

----------------------------------------------------------------------------
(* The world a method acts on, and what a method hands back *)

World == [accounts |-> accounts, deployed |-> deployed, keys |-> keys,
          nextKey |-> nextKey, calls |-> calls, out |-> out]

\* one attempted SDK / key-store operation
Op(op, target, signer, args, views, changes, ok) ==
    [op |-> op, target |-> target, signer |-> signer, args |-> args,
     views |-> views, changes |-> changes, ok |-> ok]

Issue(w, call) == [w EXCEPT !.calls = Append(@, call)]

\* console.log
Log(w, line) == [w EXCEPT !.out = Append(@, line)]

NoArgs == [none |-> TRUE]

Returned(w, value) == [w |-> w, status |-> "returned", value |-> value]

\* a failure that is swallowed: the method returns undefined
Swallowed(w) == [w |-> w, status |-> "returned", value |-> Undefined]

Threw(w) == [w |-> w, status |-> "threw", value |-> Undefined]

\* the one remote step of an invocation that fails for a reason of its own
\* (transport, disk); "none": every step the chain allows succeeds
Faults == {"none", "connect", "account", "call", "init", "store"}

----------------------------------------------------------------------------
(* The environment: chain, SDK signer, file system *)

\* the key store holds an entry under (network id, account id)
HasKey(w, networkId, id) == <<networkId, id>> \in DOMAIN w.keys

\* the account exists on the chain the profile points at
Exists(w, config, id) ==
    /\ config.kind = "profile"
    /\ id.t = "string"
    /\ <<config.networkId, id.v>> \in w.accounts

\* the local key store holds a keypair the account can sign with
CanSign(w, config, id) ==
    /\ config.kind = "profile"
    /\ id.t = "string"
    /\ HasKey(w, config.networkId, id.v)

HasCode(w, config, id) ==
    /\ Exists(w, config, id)
    /\ <<config.networkId, id.v>> \in w.deployed

\* create_account, signed by the creator: the new account must not exist yet
CreateAccepted(w, config, creator, newAccountId) ==
    /\ config.kind = "profile"
    /\ CanSign(w, config, creator)
    /\ newAccountId.t = "string"
    /\ ~Exists(w, config, newAccountId)

\* a chain that takes a signed transaction against an account it does not hold
SelfTxAccepted_KeyOnly(w, config, id) == CanSign(w, config, id)

\* a transaction signed by an account against that same account (deploy, delete)
SelfTxAccepted(w, config, id) == Exists(w, config, id) /\ CanSign(w, config, id)

\* a change method of a deployed contract, signed by the signer
ChangeAccepted(w, config, signer, contractId) ==
    CanSign(w, config, signer) /\ HasCode(w, config, contractId)

\* a view method of a deployed contract (unsigned)
ViewAccepted(w, config, contractId) == HasCode(w, config, contractId)

\* connect(config) returns (it reads config.networkId, so it throws on undefined)
Connects(config, fault) == fault # "connect" /\ ~Falsy(config)

\* files on disk
Files == {"main.wasm", "meta.json", "broken.json"}

\* fs.readFileSync(path) returns (it throws on undefined and on a missing file)
Readable(path) == path.t = "string" /\ path.v \in Files

\* JSON.parse(fs.readFileSync(path).toString()) returns
ParsesAsJson(path) == Readable(path) /\ path.v = "meta.json"

\* the parsed object
Json(path) == [t |-> "object", v |-> path.v]

----------------------------------------------------------------------------
(* Account / key manager (the text is the same in RockNFTCollectionHolder  *)
(* and in the EnvironmentNFT classes)                                      *)

Gas == Str("300000000000000")

Null == [t |-> "null", v |-> ""]

\* 24 zeros: one NEAR is 10^24 yoctoNEAR
NominationZeros == "000000000000000000000000"

\* utils.format.parseNearAmount(amt): null when amt is falsy, else the whole
\* part followed by the fraction padded to 24 digits; the amounts of the
\* model carry no '.', no ',' and no leading zero, so the fraction is empty
parseNearAmount(amt) ==
    IF ~Truthy(amt) THEN Null ELSE Str(amt.v \o NominationZeros)

\* the public key of another keypair than the one handed in
PublicKey_OfOther(keyPair) == "ed25519:" \o ToString(keyPair + 1)

\* keyPair.publicKey.toString()
PublicKey(keyPair) == "ed25519:" \o ToString(keyPair)

\* a createAccount that writes the fresh keypair to the key store before it
\* submits create_account
createAccount_StoresKeyFirst(w, network, config, creator, newAccountId, amount, fault) ==
    LET cOk == Connects(config, fault)
        w1 == Issue(w, Op("connect", network, Undefined, NoArgs, {}, {}, cOk))
        aOk == fault # "account"
        w2 == Issue(w1, Op("account", creator, Undefined, NoArgs, {}, {}, aOk))
        keyPair == w.nextKey
        slot == <<config.networkId, Text(newAccountId)>>
        w3 == [w2 EXCEPT !.nextKey = @ + 1,
                         !.keys = [k \in DOMAIN @ \cup {slot} |->
                                     IF k = slot THEN keyPair ELSE @[k]]]
        fOk == fault # "call" /\ CreateAccepted(w, config, creator, newAccountId)
        w4 == Issue(w3, Op("create_account", network, creator,
                           [new_account_id |-> newAccountId, new_public_key |-> PublicKey(keyPair),
                            gas |-> Gas, attachedDeposit |-> parseNearAmount(amount)],
                           {}, {}, fOk))
        w5 == [w4 EXCEPT !.accounts = @ \cup {slot}]
    IN  IF ~cOk THEN Threw(w1)
        ELSE IF ~aOk THEN Threw(w2)
        ELSE IF ~fOk THEN Threw(w4)
        ELSE Returned(w5, Str("outcome"))

\* createAccount: connect, load the creator, generate a keypair, submit
\* create_account, then keyStore.setKey; nothing is caught
createAccount(w, network, config, creator, newAccountId, amount, fault) ==
    LET cOk == Connects(config, fault)
        w1 == Issue(w, Op("connect", network, Undefined, NoArgs, {}, {}, cOk))
        aOk == fault # "account"
        w2 == Issue(w1, Op("account", creator, Undefined, NoArgs, {}, {}, aOk))
        keyPair == w.nextKey
        w3 == [w2 EXCEPT !.nextKey = @ + 1]
        fOk == fault # "call" /\ CreateAccepted(w, config, creator, newAccountId)
        w4 == Issue(w3, Op("create_account", network, creator,
                           [new_account_id |-> newAccountId, new_public_key |-> PublicKey(keyPair),
                            gas |-> Gas, attachedDeposit |-> parseNearAmount(amount)],
                           {}, {}, fOk))
        w5 == [w4 EXCEPT !.accounts = @ \cup {<<config.networkId, newAccountId.v>>}]
        sOk == fault # "store"
        w6 == Issue(w5, Op("setKey", newAccountId, Undefined,
                           [networkId |-> config.networkId, keyPair |-> keyPair],
                           {}, {}, sOk))
        w7 == [w6 EXCEPT !.keys = [k \in DOMAIN @ \cup {<<config.networkId, newAccountId.v>>} |->
                                     IF k = <<config.networkId, newAccountId.v>>
                                     THEN keyPair ELSE @[k]]]
    IN  IF ~cOk THEN Threw(w1)
        ELSE IF ~aOk THEN Threw(w2)
        ELSE IF ~fOk THEN Threw(w4)
        ELSE IF config.keyStore # "store" THEN Threw(w5)
        ELSE IF ~sOk THEN Threw(w6)
        ELSE Returned(w7, Str("outcome"))

\* EnvironmentNFT.createAccount(newAccountId, amount, gas): the same steps with
\* gas: utils.format.parseNearAmount(gas) in place of the literal
EnvironmentNFT_createAccount(w, network, config, creator, newAccountId, amount, gas, fault) ==
    LET cOk == Connects(config, fault)
        w1 == Issue(w, Op("connect", network, Undefined, NoArgs, {}, {}, cOk))
        aOk == fault # "account"
        w2 == Issue(w1, Op("account", creator, Undefined, NoArgs, {}, {}, aOk))
        keyPair == w.nextKey
        w3 == [w2 EXCEPT !.nextKey = @ + 1]
        fOk == fault # "call" /\ CreateAccepted(w, config, creator, newAccountId)
        w4 == Issue(w3, Op("create_account", network, creator,
                           [new_account_id |-> newAccountId, new_public_key |-> PublicKey(keyPair),
                            gas |-> parseNearAmount(gas), attachedDeposit |-> parseNearAmount(amount)],
                           {}, {}, fOk))
        w5 == [w4 EXCEPT !.accounts = @ \cup {<<config.networkId, newAccountId.v>>}]
        sOk == fault # "store"
        w6 == Issue(w5, Op("setKey", newAccountId, Undefined,
                           [networkId |-> config.networkId, keyPair |-> keyPair],
                           {}, {}, sOk))
        w7 == [w6 EXCEPT !.keys = [k \in DOMAIN @ \cup {<<config.networkId, newAccountId.v>>} |->
                                     IF k = <<config.networkId, newAccountId.v>>
                                     THEN keyPair ELSE @[k]]]
    IN  IF ~cOk THEN Threw(w1)
        ELSE IF ~aOk THEN Threw(w2)
        ELSE IF ~fOk THEN Threw(w4)
        ELSE IF config.keyStore # "store" THEN Threw(w5)
        ELSE IF ~sOk THEN Threw(w6)
        ELSE Returned(w7, Str("outcome"))

\* a deleteAccount that also drops the account's key-store entry
deleteAccount_DropsKey(w, network, config, creator, deletedAccountID, fault) ==
    LET cOk == Connects(config, fault)
        w1 == Issue(w, Op("connect", network, Undefined, NoArgs, {}, {}, cOk))
        aOk == fault # "account"
        w2 == Issue(w1, Op("account", deletedAccountID, Undefined, NoArgs, {}, {}, aOk))
        dOk == fault # "call" /\ SelfTxAccepted(w, config, deletedAccountID)
        w3 == Issue(w2, Op("deleteAccount", deletedAccountID, deletedAccountID,
                           [beneficiary |-> creator], {}, {}, dOk))
        gone == {<<config.networkId, deletedAccountID.v>>}
        w4 == [w3 EXCEPT !.accounts = @ \ gone, !.deployed = @ \ gone,
                         !.keys = [k \in DOMAIN @ \ gone |-> @[k]]]
    IN  IF ~cOk THEN Threw(w1)
        ELSE IF ~aOk THEN Threw(w2)
        ELSE IF ~dOk THEN Returned(Log(w3, "method caught"), Undefined)
        ELSE Returned(w4, Undefined)

deleteAccount(w, network, config, creator, deletedAccountID, fault) ==
    LET cOk == Connects(config, fault)
        w1 == Issue(w, Op("connect", network, Undefined, NoArgs, {}, {}, cOk))
        aOk == fault # "account"
        w2 == Issue(w1, Op("account", deletedAccountID, Undefined, NoArgs, {}, {}, aOk))
        dOk == fault # "call" /\ SelfTxAccepted(w, config, deletedAccountID)
        w3 == Issue(w2, Op("deleteAccount", deletedAccountID, deletedAccountID,
                           [beneficiary |-> creator], {}, {}, dOk))
        gone == {<<config.networkId, deletedAccountID.v>>}
        w4 == [w3 EXCEPT !.accounts = @ \ gone, !.deployed = @ \ gone]
    IN  IF ~cOk THEN Threw(w1)
        ELSE IF ~aOk THEN Threw(w2)
        ELSE IF ~dOk THEN Returned(Log(w3, "method caught"), Undefined)
        ELSE Returned(w4, Undefined)

deleteKey(w, network, config, deletedAccountID, fault) ==
    LET cOk == Connects(config, fault)
        w1 == Issue(w, Op("connect", network, Undefined, NoArgs, {}, {}, cOk))
        rOk == fault # "store"
        w2 == Issue(w1, Op("removeKey", deletedAccountID, Undefined,
                           [networkId |-> config.networkId], {}, {}, rOk))
        w3 == [w2 EXCEPT !.keys = [k \in DOMAIN @ \ {<<config.networkId, Text(deletedAccountID)>>}
                                     |-> @[k]]]
    IN  IF ~cOk THEN Threw(w1)
        ELSE IF config.keyStore # "store" THEN Returned(Log(w1, "method caught"), Undefined)
        ELSE IF ~rOk THEN Returned(Log(w2, "method caught"), Undefined)
        ELSE Returned(w3, Undefined)

----------------------------------------------------------------------------
(* Contract invoker: deploy and init *)

\* deploy(): connect, then inside try: load the account, read and push the
\* binary, and run the init call when runInit holds; catch logs and swallows
DeployWith(w, network, config, wasmFile, contractAccountID, runInit, initCall, fault) ==
    LET cOk == Connects(config, fault)
        w1 == Issue(w, Op("connect", network, Undefined, NoArgs, {}, {}, cOk))
        aOk == fault # "account"
        w2 == Issue(w1, Op("account", contractAccountID, Undefined, NoArgs, {}, {}, aOk))
        dOk == fault # "call" /\ SelfTxAccepted(w, config, contractAccountID)
        w3 == Issue(w2, Op("deployContract", contractAccountID, contractAccountID,
                           [wasm |-> wasmFile], {}, {}, dOk))
        w4 == Log([w3 EXCEPT !.deployed = @ \cup {<<config.networkId, contractAccountID.v>>}],
                  "deploy on")
        iOk == fault # "init" /\ ChangeAccepted(w4, config, contractAccountID, contractAccountID)
        w5 == Issue(w4, [initCall EXCEPT !.ok = iOk])
    IN  IF ~cOk THEN Threw(w1)
        ELSE IF ~aOk THEN Returned(Log(w2, "method caught"), Undefined)
        ELSE IF ~Readable(wasmFile) THEN Returned(Log(w2, "method caught"), Undefined)
        ELSE IF ~dOk THEN Returned(Log(w3, "method caught"), Undefined)
        ELSE IF ~runInit THEN Returned(w4, Undefined)
        ELSE IF ~iOk THEN Returned(Log(w5, "method caught"), Undefined)
        ELSE Returned(w5, Undefined)

\* an init call that hands the treasury identity in as operator and back
RockNFTCollectionHolder_init_Swapped(p) ==
    Op("new", p.contractAccountID, p.contractAccountID,
       [admin_id |-> p.adminID, operator_id |-> p.treasuryID, treasury_id |-> p.operatorID,
        init_imo_fee |-> p.initIMOFee, rock_purchase_fee |-> p.rock_purchase_fee,
        init_imo_nft_holder_size |-> p.initIMONFTHolderSize,
        metadata |-> p.contractMetadata, gas |-> Gas],
       {}, {"new"}, TRUE)

\* RockNFTCollectionHolder.init: contract.new({args, gas})
RockNFTCollectionHolder_init(p) ==
    Op("new", p.contractAccountID, p.contractAccountID,
       [admin_id |-> p.adminID, operator_id |-> p.operatorID, treasury_id |-> p.treasuryID,
        init_imo_fee |-> p.initIMOFee, rock_purchase_fee |-> p.rock_purchase_fee,
        init_imo_nft_holder_size |-> p.initIMONFTHolderSize,
        metadata |-> p.contractMetadata, gas |-> Gas],
       {}, {"new"}, TRUE)

\* a deploy that deletes the account again when its init call failed
RockNFTCollectionHolder_deploy_RollsBack(w, network, config, p, fault) ==
    LET r == DeployWith(w, network, config, p.wasmFile, p.contractAccountID, p.isRunInit,
                        RockNFTCollectionHolder_init(p), fault)
        failedInit == \E i \in 1..Len(r.w.calls) : r.w.calls[i].op = "new" /\ ~r.w.calls[i].ok
        gone == {<<config.networkId, Text(p.contractAccountID)>>}
    IN  IF failedInit
        THEN [r EXCEPT !.w = Issue([@ EXCEPT !.accounts = @ \ gone, !.deployed = @ \ gone],
                                   Op("deleteAccount", p.contractAccountID, p.contractAccountID,
                                      NoArgs, {}, {}, TRUE))]
        ELSE r

RockNFTCollectionHolder_deploy(w, network, config, p, fault) ==
    DeployWith(w, network, config, p.wasmFile, p.contractAccountID, p.isRunInit,
               RockNFTCollectionHolder_init(p), fault)

\* EnvironmentNFT.init of environmentNFT.ts (the class whose deploy takes isRunInit)
EnvironmentNFT_init(p) ==
    Op("new", p.contractAccountID, p.contractAccountID,
       [admin_id |-> p.adminID, operator_id |-> p.operatorID, treasury_id |-> p.treasuryID,
        metadata |-> p.contractMetadata, gas |-> Gas],
       {"nft_metadata"}, {"new"}, TRUE)

\* a deploy that reads the flag the wrong way round
EnvironmentNFT_deploy_FlagInverted(w, network, config, p, fault) ==
    DeployWith(w, network, config, p.wasmFile, p.contractAccountID, ~p.isRunInit,
               EnvironmentNFT_init(p), fault)

\* a deploy that runs the init call whatever the flag says
EnvironmentNFT_deploy_AlwaysInit(w, network, config, p, fault) ==
    DeployWith(w, network, config, p.wasmFile, p.contractAccountID, TRUE,
               EnvironmentNFT_init(p), fault)

EnvironmentNFT_deploy(w, network, config, p, fault) ==
    DeployWith(w, network, config, p.wasmFile, p.contractAccountID, p.isRunInit,
               EnvironmentNFT_init(p), fault)

\* EnvironmentNFT.init of 1.0_createaccountcontract.ts (deploy takes no flag)
EnvironmentNFT0_init(p) ==
    Op("new", p.contractAccountID, p.contractAccountID,
       [admin_id |-> p.adminID, operator_id |-> p.operatorID, treasury_id |-> p.treasuryID,
        max_supply |-> Num("20"), metadata |-> Str("rove-nft"), token_price |-> Num("1"),
        token_metadata |-> p.tokenMetadata, gas |-> Gas],
       {"nft_metadata"}, {"new"}, TRUE)

\* a deploy that runs the init call whether or not the binary was pushed
EnvironmentNFT0_deploy_InitRegardless(w, network, config, p, fault) ==
    LET r == DeployWith(w, network, config, p.wasmFile, p.contractAccountID, TRUE,
                        EnvironmentNFT0_init(p), fault)
        pushed == \E i \in 1..Len(r.w.calls) :
                      r.w.calls[i].op = "deployContract" /\ r.w.calls[i].ok
    IN  IF r.status = "returned" /\ ~pushed
        THEN [r EXCEPT !.w = Issue(@, [EnvironmentNFT0_init(p) EXCEPT !.ok = FALSE])]
        ELSE r

\* its deploy: the init call follows every successful deployContract
EnvironmentNFT0_deploy(w, network, config, p, fault) ==
    DeployWith(w, network, config, p.wasmFile, p.contractAccountID, TRUE,
               EnvironmentNFT0_init(p), fault)

\* RockNFT (./rockNFT): deploy(binaryPath, accountId, ...initArgs, runInit)
RockNFT_init(p) ==
    Op("new", p.contractAccountID, p.contractAccountID,
       [admin_id |-> p.adminID, operator_id |-> p.operatorID, treasury_id |-> p.treasuryID,
        init_imo_fee |-> p.initIMOFee, rock_purchase_fee |-> p.rock_purchase_fee,
        metadata |-> p.contractMetadata, gas |-> Gas],
       {}, {"new"}, TRUE)

RockNFT_deploy(w, network, config, p, fault) ==
    DeployWith(w, network, config, p.wasmFile, p.contractAccountID, p.isRunInit,
               RockNFT_init(p), fault)

\* RockNFT.deleteAccount(accountId)
RockNFT_deleteAccount(w, network, config, creator, deletedAccountID, fault) ==
    deleteAccount(w, network, config, creator, deletedAccountID, fault)

----------------------------------------------------------------------------
(* Contract invoker: one method call through a Contract proxy *)

\* connect, then inside try: load the signer account, build the proxy, call
Invoke(w, network, config, signerId, call, kind, response, fault) ==
    LET cOk == Connects(config, fault)
        w1 == Issue(w, Op("connect", network, Undefined, NoArgs, {}, {}, cOk))
        aOk == fault # "account"
        w2 == Issue(w1, Op("account", signerId, Undefined, NoArgs, {}, {}, aOk))
        mOk == /\ fault # "call"
               /\ IF kind = "view" THEN ViewAccepted(w, config, call.target)
                                   ELSE ChangeAccepted(w, config, signerId, call.target)
        w3 == Issue(w2, [call EXCEPT !.ok = mOk])
    IN  IF ~cOk THEN Threw(w1)
        ELSE IF ~aOk THEN Returned(Log(w2, "method caught"), Undefined)
        ELSE IF ~mOk THEN Returned(Log(w3, "method caught"), Undefined)
        ELSE Returned(w3, response)

\* a mintRock that drops the signer's key-store entry on its way
mintRock_DropsSignerKey(w, network, config, p, fault) ==
    LET r == Invoke(w, network, config, p.signerId,
                    Op("mint_rock", p.contractAccountId, p.signerId, NoArgs,
                       {}, {"mint_rock"}, TRUE),
                    "change", Undefined, fault)
    IN  [r EXCEPT !.w.keys = [k \in DOMAIN @ \ {<<config.networkId, Text(p.signerId)>>}
                                |-> @[k]]]

\* RockNFTCollectionHolder.mintRock: the response is logged, nothing is returned
mintRock(w, network, config, p, fault) ==
    Invoke(w, network, config, p.signerId,
           Op("mint_rock", p.contractAccountId, p.signerId,
              [metaverse_id |-> p.metaverseId, zone_index |-> p.zoneIndex,
               rock_index |-> p.rockIndex, receiver_id |-> p.receiverId,
               token_metadata |-> p.tokenMetadata, gas |-> Gas,
               amount |-> parseNearAmount(p.attachedDeposit)],
              {}, {"mint_rock"}, TRUE),
           "change", Undefined, fault)

\* EnvironmentNFT.changeTreasury: the response is bound to a local, nothing is returned
changeTreasury(w, network, config, p, fault) ==
    Invoke(w, network, config, p.signerId,
           Op("change_treasury", p.contractAccountId, p.signerId,
              [new_treasury_id |-> p.newTreasuryId, amount |-> Str("1")],
              {}, {"change_treasury"}, TRUE),
           "change", Undefined, fault)

\* EnvironmentNFT.createNFT (the class with deploy(wasmFile, ..., treasuryID)):
\* contract.nft_create({receiver_id}, gas, attachedDeposit); nothing is returned
createNFT(w, network, config, p, fault) ==
    Invoke(w, network, config, p.signerId,
           Op("nft_create", p.contractAccountId, p.signerId,
              [receiver_id |-> p.receiverId, gas |-> Gas, amount |-> p.attachedDeposit],
              {}, {"nft_create"}, TRUE),
           "change", Undefined, fault)

\* EnvironmentNFT.createNft (the class whose deploy takes isRunInit):
\* contract.create_nft({nft_type_id, price, token_metadata, max_supply}, gas, deposit)
createNft(w, network, config, p, fault) ==
    Invoke(w, network, config, p.signerId,
           Op("create_nft", p.contractAccountId, p.signerId,
              [nft_type_id |-> p.nftTypeId, price |-> parseNearAmount(p.price),
               token_metadata |-> p.tokenMetadata, max_supply |-> p.maxSupply,
               gas |-> Gas, amount |-> parseNearAmount(p.attachedDeposit)],
              {}, {"create_nft"}, TRUE),
           "change", Undefined, fault)

\* what a successful remote call hands back, decoded
Decoded(call) == [t |-> "object", v |-> "response of " \o call.op]

\* the get_admin call of EnvironmentNFT.get
GetAdminCall(p) ==
    Op("get_admin", p.contractAccountId, Undefined, NoArgs, {"get_admin"}, {}, TRUE)

\* EnvironmentNFT.get(method, contractAccountId, signerId): the proxy declares
\* and calls get_admin whatever method names; the response is returned
get(w, network, config, p, fault) ==
    Invoke(w, network, config, p.signerId, GetAdminCall(p), "view",
           Decoded(GetAdminCall(p)), fault)

----------------------------------------------------------------------------
(* parseInt *)

DigitChars == <<"0", "1", "2", "3", "4", "5", "6", "7", "8", "9",
                "a", "b", "c", "d", "e", "f">>

\* the value of a digit character, 16 when it is no digit
DigitVal(c) ==
    IF \E i \in 1..16 : DigitChars[i] = c
    THEN (CHOOSE i \in 1..16 : DigitChars[i] = c) - 1
    ELSE 16

\* the characters of the strings the model feeds to parseInt; any other
\* string of the model starts with a character that is no digit
Chars(s) ==
    CASE s = "" -> <<>>
      [] s = "3" -> <<"3">>
      [] s = "4" -> <<"4">>
      [] s = "5" -> <<"5">>
      [] s = "7" -> <<"7">>
      [] s = "12" -> <<"1", "2">>
      [] s = "0x10" -> <<"0", "x", "1", "0">>
      [] s = "7up" -> <<"7", "u", "p">>
      [] OTHER -> <<"?">>

RECURSIVE DigitsValue(_, _, _, _)
\* the longest prefix of cs made of digits below r, read in radix r:
\* <<number of digits read, their value>>
DigitsValue(cs, r, n, acc) ==
    IF cs = <<>> \/ DigitVal(Head(cs)) >= r
    THEN <<n, acc>>
    ELSE DigitsValue(Tail(cs), r, n + 1, acc * r + DigitVal(Head(cs)))

\* parseInt(x, radix); radix 0 stands for a call without a radix
ParseInt(x, radix) ==
    LET cs == Chars(Text(x))
        hex == Len(cs) >= 2 /\ cs[1] = "0" /\ cs[2] = "x"
        r == IF radix = 0 THEN (IF hex THEN 16 ELSE 10) ELSE radix
        body == IF hex /\ r = 16 THEN Tail(Tail(cs)) ELSE cs
        d == DigitsValue(body, r, 0, 0)
    IN  IF d[1] = 0 THEN NaN ELSE Num(ToString(d[2]))

----------------------------------------------------------------------------
(* The scripts: the network guard *)

RockDeploy == "rockNFT/1.1_deploy.ts"
HolderDeploy == "rockNFTCollectionHolder/1.1_deploy.ts"
EnvDeploy0 == "environmentsNFT/1.1_deploy.ts (wasm, account)"
EnvDeploy == "environmentsNFT/1.1_deploy.ts"
EnvUpgrade == "environmentsNFT/upgrade"
HolderCreate == "rockNFTCollectionHolder/1.0_createaccountcontract.ts"
EnvCreate == "environmentsNFT/1.0_createaccountcontract.ts"
HolderDelete == "rockNFTCollectionHolder/1.0_deleteaccountcontract.ts"
EnvDelete == "environmentsNFT/1.0_deleteaccount.ts"
RockDelete == "rockNFT/1.0_deleteaccountcontract.ts"
HolderMintRock == "rockNFTCollectionHolder/1.4_mint_rock.ts"
EnvSetTreasury == "environmentsNFT/3.2_set-treasury.ts"
EnvGetAdmin == "environmentsNFT/3.7_update-royalties.ts (get_admin)"
EnvGetMaxSupply == "environmentsNFT/1.3_user-mint.ts (get_max_supply)"
EnvCreateTwoArgs == "environmentsNFT/1.3_user-mint.ts (createAccount)"
EnvCreateNFT == "environmentsNFT/1.2_createNFT.ts"
EnvCreateNft == "environmentsNFT create-nft script (nft type, price, metadata, max supply)"
EnvDeleteLoose == "environmentsNFT delete-account script (deleteAccount not awaited)"

\* scripts guarded by: const nft = new X(process.env.NETWORK); if (!nft.config) return
ConfigGuardScripts == {RockDeploy, HolderDeploy, EnvUpgrade, HolderCreate, EnvCreate,
                       HolderDelete, RockDelete, HolderMintRock, EnvGetMaxSupply}

\* scripts guarded by: if (process.env.NETWORK != "testnet") return
TestnetGuardScripts == {EnvDeploy0, EnvDeploy, EnvDelete, EnvSetTreasury, EnvGetAdmin,
                        EnvDeleteLoose, EnvCreateTwoArgs, EnvCreateNFT, EnvCreateNft}

\* scripts that call their method without await
UnawaitedScripts == {EnvDeleteLoose}

Scripts == ConfigGuardScripts \cup TestnetGuardScripts

\* !nft.config
ConfigGuard == Falsy(NearConfig(env.NETWORK))

\* process.env.NETWORK != "testnet"
TestnetGuard == env.NETWORK # Str("testnet")

\* the guard makes the script return
Stopped(s) == IF s \in TestnetGuardScripts THEN TestnetGuard ELSE ConfigGuard

----------------------------------------------------------------------------
(* The scripts: argument resolution.  A script resolves its parameters,    *)
(* reading and parsing its metadata file on the way; a throw lands in the  *)
(* script's catch.                                                         *)

Resolved(p, lines) == [status |-> "ok", params |-> p, out |-> lines]

ResolveThrew(p, lines) == [status |-> "threw", params |-> p, out |-> lines]

\* throw new Error("invalid arguments"): the error the script's catch prints
InvalidArguments(p) == ResolveThrew(p, <<"Error: invalid arguments">>)

\* JSON.parse((await fs.readFileSync(file)).toString())
ReadJson(file) == IF ParsesAsJson(file) THEN Json(file) ELSE Undefined

\* a check that logs nothing
NoWarning(file) == <<>>

\* console.log("missing contract metadata file") when the file argument is ""
MissingFileWarning(file) ==
    IF file = Str("") THEN <<"missing contract metadata file">> ELSE <<>>

\* rockNFT/1.1_deploy.ts
RockDeploy_Resolve ==
    LET rockPurchaseFee == Or(Or(Arg(8), env.ROCK_PURCHASE_FEE), Str(""))
        contractMetadataFile == Or(Arg(9), Str(""))
        p == [wasmFile |-> Arg(2),
              contractAccountID |-> Arg(3),
              adminID |-> Or(Or(Arg(4), env.ADMIN_ID), Str("")),
              operatorID |-> Or(Or(Arg(5), env.OPERATOR_ID), Str("")),
              treasuryID |-> Or(Or(Arg(6), env.TREASURY_ID), Str("")),
              initIMOFee |-> Or(Or(Arg(7), env.INIT_IMO_FEE), Str("")),
              rockPurchaseFee |-> rockPurchaseFee,
              rock_purchase_fee |-> ParseInt(rockPurchaseFee, 10),
              contractMetadataFile |-> contractMetadataFile,
              contractMetadata |-> ReadJson(contractMetadataFile),
              isRunInit |-> TRUE]
    IN  IF ParsesAsJson(contractMetadataFile)
        THEN Resolved(p, MissingFileWarning(contractMetadataFile))
        ELSE ResolveThrew([f \in DOMAIN p \ {"contractMetadata", "rock_purchase_fee",
                                              "initIMONFTHolderSize", "isRunInit"} |-> p[f]],
                          MissingFileWarning(contractMetadataFile))

\* the rockNFTCollectionHolder deploy script
HolderDeploy_Resolve ==
    LET rockPurchaseFee == Or(Or(Arg(8), env.ROCK_PURCHASE_FEE), Str(""))
        init_imo_nft_holder_size == Or(Arg(9), Str(""))
        contractMetadataFile == Or(Arg(10), Str(""))
        p == [wasmFile |-> Arg(2),
              contractAccountID |-> Arg(3),
              adminID |-> Or(Or(Arg(4), env.ADMIN_ID), Str("")),
              operatorID |-> Or(Or(Arg(5), env.OPERATOR_ID), Str("")),
              treasuryID |-> Or(Or(Arg(6), env.TREASURY_ID), Str("")),
              initIMOFee |-> Or(Or(Arg(7), env.INIT_IMO_FEE), Str("")),
              rockPurchaseFee |-> rockPurchaseFee,
              rock_purchase_fee |-> ParseInt(rockPurchaseFee, 10),
              init_imo_nft_holder_size |-> init_imo_nft_holder_size,
              initIMONFTHolderSize |-> ParseInt(init_imo_nft_holder_size, 10),
              contractMetadataFile |-> contractMetadataFile,
              contractMetadata |-> ReadJson(contractMetadataFile),
              isRunInit |-> TRUE]
    IN  IF ParsesAsJson(contractMetadataFile)
        THEN Resolved(p, MissingFileWarning(contractMetadataFile))
        ELSE ResolveThrew([f \in DOMAIN p \ {"contractMetadata", "rock_purchase_fee",
                                              "initIMONFTHolderSize", "isRunInit"} |-> p[f]],
                          MissingFileWarning(contractMetadataFile))

\* environmentsNFT/1.1_deploy.ts, the script that takes wasm and account only:
\* nft.deploy(wasm, contractAccountId, 0, "", "", "", "")
EnvDeploy0_Resolve ==
    Resolved([wasmFile |-> Arg(2),
              contractAccountID |-> Arg(3),
              price |-> Num("0"),
              tokenMetadata |-> Str(""),
              adminID |-> Str(""),
              operatorID |-> Str(""),
              treasuryID |-> Str("")], <<>>)

\* a script that goes on to deploy() although the token metadata did not parse
EnvDeploy_Resolve_Unchecked ==
    Resolved([wasmFile |-> Arg(2),
              contractAccountID |-> Arg(3),
              price |-> Num("0"),
              tokenMetadataFile |-> Arg(4),
              tokenMetadata |-> ReadJson(Arg(4)),
              adminID |-> Or(Or(Arg(5), env.ADMIN_ID), Str("")),
              operatorID |-> Or(Or(Arg(6), env.OPERATOR_ID), Str("")),
              treasuryID |-> Or(Or(Arg(7), env.TREASURY_ID), Str(""))], <<>>)

\* environmentsNFT/1.1_deploy.ts, the script that reads the token metadata file
EnvDeploy_Resolve ==
    LET tokenMetadataFile == Arg(4)
        p == [wasmFile |-> Arg(2),
              contractAccountID |-> Arg(3),
              price |-> Num("0"),
              tokenMetadataFile |-> tokenMetadataFile,
              tokenMetadata |-> ReadJson(tokenMetadataFile),
              adminID |-> Or(Or(Arg(5), env.ADMIN_ID), Str("")),
              operatorID |-> Or(Or(Arg(6), env.OPERATOR_ID), Str("")),
              treasuryID |-> Or(Or(Arg(7), env.TREASURY_ID), Str(""))]
    IN  IF ParsesAsJson(tokenMetadataFile) THEN Resolved(p, <<>>)
        ELSE ResolveThrew([wasmFile |-> Arg(2), contractAccountID |-> Arg(3),
                           tokenMetadataFile |-> tokenMetadataFile], <<>>)

\* the environmentsNFT upgrade script: deploy(..., contractMetadata, false)
EnvUpgrade_Resolve ==
    LET tokenMetadataFile == Arg(4)
        contractMetadataFile == Arg(10)
        p == [wasmFile |-> Arg(2),
              contractAccountID |-> Arg(3),
              tokenMetadataFile |-> tokenMetadataFile,
              tokenMetadata |-> ReadJson(tokenMetadataFile),
              adminID |-> Or(Or(Arg(5), env.ADMIN_ID), Str("")),
              operatorID |-> Or(Or(Arg(6), env.OPERATOR_ID), Str("")),
              treasuryID |-> Or(Or(Arg(7), env.TREASURY_ID), Str("")),
              tokenPrice |-> Or(Or(Arg(8), env.TOKEN_PRICE), Num("0")),
              maxSupply |-> Or(Or(Arg(9), env.TOKEN_PRICE), Num("0")),
              contractMetadataFile |-> contractMetadataFile,
              contractMetadata |-> ReadJson(contractMetadataFile),
              isRunInit |-> FALSE]
    IN  IF ~ParsesAsJson(tokenMetadataFile)
        THEN ResolveThrew([wasmFile |-> Arg(2), contractAccountID |-> Arg(3),
                           tokenMetadataFile |-> tokenMetadataFile], <<>>)
        ELSE IF ~ParsesAsJson(contractMetadataFile)
        THEN ResolveThrew([f \in DOMAIN p \ {"contractMetadata", "isRunInit"} |-> p[f]], <<>>)
        ELSE Resolved(p, <<>>)

\* `${process.argv[2]}-contract-${(new Date()).getTime()}-${process.env.CREATOR_ACCOUNT_ID}`
ContractAccountId ==
    Str(Text(Arg(2)) \o "-contract-" \o ToString(now) \o "-" \o Text(env.CREATOR_ACCOUNT_ID))

\* rockNFTCollectionHolder/1.0_createaccountcontract.ts
HolderCreate_Resolve ==
    Resolved([contractAccountId |-> ContractAccountId, depositAmount |-> Arg(3)], <<>>)

\* environmentsNFT/1.0_createaccountcontract.ts
EnvCreate_Resolve ==
    Resolved([contractAccountId |-> ContractAccountId, depositAmount |-> Arg(3)], <<>>)

\* process.argv[2] + (new Date()).getTime() + "-" + process.env.CREATOR_ACCOUNT_ID
EnvCreateTwoArgs_Resolve ==
    Resolved([contractAccountId |->
                  Str(Text(Arg(2)) \o ToString(now) \o "-" \o Text(env.CREATOR_ACCOUNT_ID)),
              depositAmount |-> Arg(3)], <<>>)

\* the delete-account scripts: const deletedAccount = process.argv[2]
HolderDelete_Resolve == Resolved([deletedAccount |-> Arg(2)], <<>>)

EnvDelete_Resolve == Resolved([deletedAccount |-> Arg(2)], <<>>)

RockDelete_Resolve == Resolved([deletedAccount |-> Arg(2)], <<>>)

\* nft.deleteAccount(process.argv[2])
EnvDeleteLoose_Resolve == Resolved([deletedAccount |-> Arg(2)], <<>>)

\* rockNFTCollectionHolder/1.4_mint_rock.ts
HolderMintRock_Resolve ==
    LET tokenMetadataFile == Arg(7)
        p == [metaverseId |-> Or(Arg(2), Str("")),
              zoneIndex |-> ParseInt(Arg(3), 0),
              rockIndex |-> ParseInt(Arg(4), 0),
              contractAccountId |-> Arg(5),
              signerId |-> Arg(6),
              tokenMetadataFile |-> tokenMetadataFile,
              tokenMetadata |-> ReadJson(tokenMetadataFile),
              receiverId |-> Arg(8),
              attachedDeposit |-> Arg(9)]
    IN  IF ParsesAsJson(tokenMetadataFile) THEN Resolved(p, <<>>)
        ELSE ResolveThrew([metaverseId |-> p.metaverseId, zoneIndexArg |-> Arg(3),
                           rockIndexArg |-> Arg(4), contractAccountId |-> Arg(5),
                           signerId |-> Arg(6), tokenMetadataFile |-> tokenMetadataFile], <<>>)

\* a set-treasury script that calls changeTreasury whatever its arguments are
EnvSetTreasury_Resolve_Unchecked ==
    Resolved([contractAccountId |-> Arg(2), signerId |-> Arg(3), newTreasuryId |-> Arg(4)],
             <<>>)

\* environmentsNFT/3.2_set-treasury.ts: throws "invalid arguments" when
\* contractAccountId or signerId is falsy
EnvSetTreasury_Resolve ==
    LET p == [contractAccountId |-> Arg(2), signerId |-> Arg(3), newTreasuryId |-> Arg(4)]
    IN  IF ~Truthy(p.contractAccountId) \/ ~Truthy(p.signerId)
        THEN InvalidArguments(p) ELSE Resolved(p, <<>>)

\* the get_admin script: throws "invalid arguments" when contractAccountId
\* or signerId is falsy
EnvGetAdmin_Resolve ==
    LET p == [method |-> Str("get_admin"), contractAccountId |-> Arg(2), signerId |-> Arg(3)]
    IN  IF ~Truthy(p.contractAccountId) \/ ~Truthy(p.signerId)
        THEN InvalidArguments([contractAccountId |-> Arg(2), signerId |-> Arg(3)])
        ELSE Resolved(p, <<>>)

\* the get_max_supply script: the same check, then nft.get("get_max_supply", ...)
EnvGetMaxSupply_Resolve ==
    LET p == [method |-> Str("get_max_supply"), contractAccountId |-> Arg(2),
              signerId |-> Arg(3)]
    IN  IF ~Truthy(p.contractAccountId) \/ ~Truthy(p.signerId)
        THEN InvalidArguments([contractAccountId |-> Arg(2), signerId |-> Arg(3)])
        ELSE Resolved(p, <<>>)

\* environmentsNFT/1.2_createNFT.ts:
\* if (!!contractAccountId || !signerId || !receiverId || !attachedDeposit) throw
EnvCreateNFT_Resolve ==
    LET p == [contractAccountId |-> Arg(2), signerId |-> Arg(3), receiverId |-> Arg(4),
              attachedDeposit |-> Arg(5)]
    IN  IF \/ Truthy(p.contractAccountId)
           \/ ~Truthy(p.signerId)
           \/ ~Truthy(p.receiverId)
           \/ ~Truthy(p.attachedDeposit)
        THEN InvalidArguments(p) ELSE Resolved(p, <<>>)

\* the create-nft script: the token metadata file is read and parsed, then
\* maxSupply = parseInt(process.argv[7]), and only then the arguments are checked
EnvCreateNft_Resolve ==
    LET tokenMetadataFile == Arg(6)
        p == [contractAccountId |-> Arg(2), signerId |-> Arg(3), nftTypeId |-> Arg(4),
              price |-> Arg(5),
              tokenMetadataFile |-> tokenMetadataFile,
              tokenMetadata |-> ReadJson(tokenMetadataFile),
              maxSupply |-> ParseInt(Arg(7), 0),
              attachedDeposit |-> Arg(8)]
    IN  IF ~ParsesAsJson(tokenMetadataFile)
        THEN ResolveThrew([contractAccountId |-> Arg(2), signerId |-> Arg(3),
                           nftTypeId |-> Arg(4), price |-> Arg(5),
                           tokenMetadataFile |-> tokenMetadataFile], <<>>)
        ELSE IF ~Truthy(p.contractAccountId) \/ ~Truthy(p.signerId)
        THEN InvalidArguments(p)
        ELSE Resolved(p, <<>>)

ResolveOf(s) ==
    CASE s = RockDeploy -> RockDeploy_Resolve
      [] s = HolderDeploy -> HolderDeploy_Resolve
      [] s = EnvDeploy0 -> EnvDeploy0_Resolve
      [] s = EnvDeploy -> EnvDeploy_Resolve
      [] s = EnvUpgrade -> EnvUpgrade_Resolve
      [] s = HolderCreate -> HolderCreate_Resolve
      [] s = EnvCreate -> EnvCreate_Resolve
      [] s = HolderDelete -> HolderDelete_Resolve
      [] s = EnvDelete -> EnvDelete_Resolve
      [] s = RockDelete -> RockDelete_Resolve
      [] s = HolderMintRock -> HolderMintRock_Resolve
      [] s = EnvSetTreasury -> EnvSetTreasury_Resolve
      [] s = EnvGetAdmin -> EnvGetAdmin_Resolve
      [] s = EnvGetMaxSupply -> EnvGetMaxSupply_Resolve
      [] s = EnvCreateTwoArgs -> EnvCreateTwoArgs_Resolve
      [] s = EnvCreateNFT -> EnvCreateNFT_Resolve
      [] s = EnvCreateNft -> EnvCreateNft_Resolve
      [] s = EnvDeleteLoose -> EnvDeleteLoose_Resolve

----------------------------------------------------------------------------
(* The scripts: the awaited method call and the final log line *)

\* this.network and this.config of the instance the script built
Network == env.NETWORK

Config == NearConfig(env.NETWORK)

Creator == env.CREATOR_ACCOUNT_ID

\* what the script calls, as <<method name, what the call does>>
CallOf(s, w, fault) ==
    CASE s = RockDeploy -> <<"deploy", RockNFT_deploy(w, Network, Config, params, fault)>>
      [] s = HolderDeploy ->
            <<"deploy", RockNFTCollectionHolder_deploy(w, Network, Config, params, fault)>>
      [] s = EnvDeploy0 -> <<"deploy", EnvironmentNFT0_deploy(w, Network, Config, params, fault)>>
      [] s = EnvDeploy -> <<"deploy", EnvironmentNFT0_deploy(w, Network, Config, params, fault)>>
      [] s = EnvUpgrade -> <<"deploy", EnvironmentNFT_deploy(w, Network, Config, params, fault)>>
      [] s = HolderCreate ->
            <<"createAccount", createAccount(w, Network, Config, Creator,
                                             params.contractAccountId, params.depositAmount, fault)>>
      [] s = EnvCreate ->
            <<"createAccount", createAccount(w, Network, Config, Creator,
                                             params.contractAccountId, params.depositAmount, fault)>>
      [] s = EnvCreateTwoArgs ->
            <<"createAccount",
              EnvironmentNFT_createAccount(w, Network, Config, Creator, params.contractAccountId,
                                           params.depositAmount, Undefined, fault)>>
      [] s = HolderDelete ->
            <<"deleteAccount", deleteAccount(w, Network, Config, Creator,
                                             params.deletedAccount, fault)>>
      [] s \in {EnvDelete, EnvDeleteLoose} ->
            <<"deleteAccount", deleteAccount(w, Network, Config, Creator,
                                             params.deletedAccount, fault)>>
      [] s = RockDelete ->
            <<"deleteAccount", RockNFT_deleteAccount(w, Network, Config, Creator,
                                                     params.deletedAccount, fault)>>
      [] s = HolderMintRock -> <<"mintRock", mintRock(w, Network, Config, params, fault)>>
      [] s = EnvSetTreasury ->
            <<"changeTreasury", changeTreasury(w, Network, Config, params, fault)>>
      [] s \in {EnvGetAdmin, EnvGetMaxSupply} ->
            <<"get", get(w, Network, Config, params, fault)>>
      [] s = EnvCreateNFT -> <<"createNFT", createNFT(w, Network, Config, params, fault)>>
      [] s = EnvCreateNft -> <<"createNft", createNft(w, Network, Config, params, fault)>>

\* scripts that print nothing after their call
ReportOf_Silent(s) == ""

\* the line the script prints after its awaited call returned ("" when it prints none)
ReportOf(s) ==
    CASE s \in {RockDeploy, HolderDeploy, EnvDeploy0, EnvDeploy} -> "Deployed contract on contractAccountId"
      [] s = EnvUpgrade -> "Upgraded contract on contractAccountId"
      [] s \in {HolderCreate, EnvCreate} -> "Created contractAccountID"
      [] s \in {HolderDelete, EnvDelete, RockDelete} -> "Deleted contractAccountID"
      [] s \in {EnvSetTreasury, EnvGetAdmin, EnvGetMaxSupply} -> "result"
      [] s \in {EnvCreateNFT, EnvCreateNft} -> "Created nft"
      [] OTHER -> ""

----------------------------------------------------------------------------
(* Inputs: environment, command line, clock *)

EnvOf(network, creator, admin, operator, treasury, imoFee, rockFee, tokenPrice) ==
    [NETWORK |-> network, CREATOR_ACCOUNT_ID |-> creator, ADMIN_ID |-> admin,
     OPERATOR_ID |-> operator, TREASURY_ID |-> treasury, INIT_IMO_FEE |-> imoFee,
     ROCK_PURCHASE_FEE |-> rockFee, TOKEN_PRICE |-> tokenPrice]

\* NETWORK: unset, the profiles, an unknown name, a name inherited from Object.prototype
NetworkChoices == {Undefined, Str("testnet"), Str("mainnet"), Str("localnet"),
                   Str("devnet"), Str("constructor")}

EnvChoices(s) ==
    { EnvOf(n, Undefined, Undefined, Undefined, Undefined, Undefined, Undefined, Undefined)
        : n \in NetworkChoices } \cup
    { EnvOf(n, Str("creator.near"), Str("alice"), Str("bob"), Str("carol"),
            Undefined, Undefined, Undefined) : n \in NetworkChoices } \cup
    IF s \in {RockDeploy, HolderDeploy, EnvUpgrade}
    THEN { EnvOf(n, Str("creator.near"), Str("alice"), Str("bob"), Str("carol"),
                 Str("7"), Str("12"), Str("4")) : n \in NetworkChoices }
    ELSE {}

Prefixes(a) == { SubSeq(a, 1, n) : n \in 0..Len(a) }

\* command lines: every prefix of a fully given one and of one whose
\* environment-backed arguments are empty, and some with a bad file
Argvs(s) ==
    CASE s = RockDeploy ->
            Prefixes(<<"main.wasm", "demo-contract", "dave", "erin", "frank", "3", "5", "meta.json">>)
            \cup Prefixes(<<"main.wasm", "demo-contract", "", "", "", "", "", "meta.json">>)
            \cup {<<"gone.wasm", "demo-contract", "", "", "", "", "", "meta.json">>,
                  <<"main.wasm", "demo-contract", "", "", "", "", "", "broken.json">>}
      [] s = HolderDeploy ->
            Prefixes(<<"main.wasm", "demo-contract", "dave", "erin", "frank", "3", "5", "4", "meta.json">>)
            \cup Prefixes(<<"main.wasm", "demo-contract", "", "", "", "", "", "", "meta.json">>)
            \cup {<<"gone.wasm", "demo-contract", "", "", "", "", "", "", "meta.json">>,
                  <<"main.wasm", "demo-contract", "", "", "", "", "7up", "", "meta.json">>}
      [] s = EnvDeploy0 -> Prefixes(<<"main.wasm", "demo-contract">>)
      [] s = EnvDeploy ->
            Prefixes(<<"main.wasm", "demo-contract", "meta.json", "dave", "erin", "frank">>)
            \cup Prefixes(<<"main.wasm", "demo-contract", "meta.json", "", "", "">>)
            \cup {<<"main.wasm", "demo-contract", "broken.json">>}
      [] s = EnvUpgrade ->
            Prefixes(<<"main.wasm", "demo-contract", "meta.json", "dave", "erin", "frank",
                       "3", "5", "meta.json">>)
            \cup Prefixes(<<"main.wasm", "demo-contract", "meta.json", "", "", "", "", "", "meta.json">>)
      [] s \in {HolderCreate, EnvCreate} ->
            Prefixes(<<"demo", "1">>) \cup {<<"demo", "demo-account", "2">>}
      [] s = EnvCreateTwoArgs -> {<<"demo", "1">>}
      [] s = EnvCreateNft ->
            {<<>>, <<"demo-contract">>,
             <<"demo-contract", "creator.near", "t1", "2", "meta.json", "5", "1">>,
             <<"demo-contract", "creator.near", "t1", "2", "meta.json", "0x10", "1">>,
             <<"", "creator.near", "t1", "2", "meta.json", "5", "1">>,
             <<"demo-contract", "", "t1", "2", "meta.json", "5", "1">>}
      [] s = EnvCreateNFT ->
            Prefixes(<<"demo-contract", "creator.near", "rcv", "1">>)
            \cup {<<"", "creator.near", "rcv", "1">>}
      [] s \in {HolderDelete, EnvDelete, RockDelete, EnvDeleteLoose} ->
            {<<>>, <<"demo-contract">>, <<"demo-contract-1-creator.near">>}
      [] s = HolderMintRock ->
            Prefixes(<<"mv", "3", "4", "demo-contract", "creator.near", "meta.json", "rcv", "1">>)
            \cup {<<"mv", "0x10", "4", "demo-contract", "creator.near", "meta.json", "rcv", "1">>}
      [] s = EnvSetTreasury -> Prefixes(<<"demo-contract", "creator.near", "carol">>)
      [] s \in {EnvGetAdmin, EnvGetMaxSupply} -> Prefixes(<<"demo-contract", "creator.near">>)

\* scripts that read the clock
ReadsClock(s) == s \in {HolderCreate, EnvCreate, EnvCreateTwoArgs}

----------------------------------------------------------------------------
(* Initial state: the creator account and one contract account exist on    *)
(* testnet and on mainnet, with their keypairs in the local key store.     *)

InitialAccounts == {<<"testnet", "creator.near">>, <<"testnet", "demo-contract">>,
                    <<"mainnet", "creator.near">>, <<"mainnet", "demo-contract">>}

NoCall == [method |-> "none", status |-> "none", value |-> Undefined, fault |-> "none",
           accountsBefore |-> {}, keysBefore |-> <<>>, keyPair |-> 0]

\* no process is running: nothing of a run is left but chain and key store
NoEnv == EnvOf(Undefined, Undefined, Undefined, Undefined, Undefined, Undefined,
               Undefined, Undefined)

Init ==
    /\ pc = "idle"
    /\ script = "none"
    /\ env = NoEnv
    /\ argv = <<>>
    /\ now = 0
    /\ params = [none |-> TRUE]
    /\ calls = <<>>
    /\ out = <<>>
    /\ last = NoCall
    /\ accounts = InitialAccounts
    /\ deployed = {}
    /\ keys = [k \in InitialAccounts |-> 0]
    /\ nextKey = 1
    /\ runs = 0

----------------------------------------------------------------------------
(* Actions *)

\* yarn ts:run <script> [args...]: a process starts
Launch ==
    /\ pc = "idle"
    /\ runs < MaxRuns
    /\ \E s \in Scripts :
         /\ script' = s
         /\ env' \in EnvChoices(s)
         /\ argv' \in Argvs(s)
         /\ now' \in IF ReadsClock(s) THEN 1..MaxClock ELSE {0}
    /\ pc' = "guard"
    /\ params' = [none |-> TRUE]
    /\ calls' = <<>>
    /\ out' = <<>>
    /\ last' = NoCall
    /\ runs' = runs + 1
    /\ UNCHANGED <<accounts, deployed, keys, nextKey>>

\* the network guard at the top of the script
Guard ==
    /\ pc = "guard"
    /\ IF Stopped(script)
       THEN pc' = "done" /\ out' = Append(out, "wrong network")
       ELSE pc' = "args" /\ out' = out
    /\ UNCHANGED <<script, env, argv, now, params, calls, last,
                   accounts, deployed, keys, nextKey, runs>>

\* the statements between the guard and the awaited call
Resolve ==
    /\ pc = "args"
    /\ LET r == ResolveOf(script) IN
         /\ params' = r.params
         /\ IF r.status = "threw"
            THEN pc' = "done" /\ out' = out \o r.out \o <<"script caught">>
            ELSE pc' = "call" /\ out' = out \o r.out
    /\ UNCHANGED <<script, env, argv, now, calls, last,
                   accounts, deployed, keys, nextKey, runs>>

\* what an invocation leaves behind
Invocation(method, r, fault) ==
    [method |-> method, status |-> r.status, value |-> r.value, fault |-> fault,
     accountsBefore |-> accounts, keysBefore |-> keys, keyPair |-> nextKey]

Effect(r) ==
    /\ accounts' = r.w.accounts
    /\ deployed' = r.w.deployed
    /\ keys' = r.w.keys
    /\ nextKey' = r.w.nextKey
    /\ calls' = r.w.calls

\* await nft.<method>(...): the whole method runs; a throw lands in the script's catch
Call ==
    /\ pc = "call"
    /\ script \notin UnawaitedScripts
    /\ \E fault \in Faults :
         LET c == CallOf(script, World, fault)
             r == c[2]
         IN  /\ Effect(r)
             /\ last' = Invocation(c[1], r, fault)
             /\ IF r.status = "threw"
                THEN pc' = "done" /\ out' = Append(r.w.out, "script caught")
                ELSE pc' = "report" /\ out' = r.w.out
    /\ UNCHANGED <<script, env, argv, now, params, runs>>

\* nft.<method>(...) without await: the method starts, its promise is left
\* pending and the script goes on
Start ==
    /\ pc = "call"
    /\ script \in UnawaitedScripts
    /\ pc' = "report"
    /\ last' = [NoCall EXCEPT !.method = CallOf(script, World, "none")[1],
                              !.status = "pending"]
    /\ UNCHANGED <<script, env, argv, now, params, calls, out,
                   accounts, deployed, keys, nextKey, runs>>

\* the pending method runs to its end after the script's body was left; its
\* rejection is caught by nobody
Settle ==
    /\ pc = "done"
    /\ last.status = "pending"
    /\ \E fault \in Faults :
         LET r == CallOf(script, World, fault)[2]
         IN  /\ Effect(r)
             /\ last' = Invocation(last.method, r, fault)
             /\ out' = IF r.status = "threw" THEN Append(r.w.out, "unhandled rejection")
                                              ELSE r.w.out
    /\ UNCHANGED <<pc, script, env, argv, now, params, runs>>

\* the console.log after the awaited call
Report ==
    /\ pc = "report"
    /\ pc' = "done"
    /\ out' = IF ReportOf(script) = "" THEN out ELSE Append(out, ReportOf(script))
    /\ UNCHANGED <<script, env, argv, now, params, calls, last,
                   accounts, deployed, keys, nextKey, runs>>

\* the process ends: what it held in memory is gone
Exit ==
    /\ pc = "done"
    /\ last.status # "pending"
    /\ pc' = "idle"
    /\ script' = "none"
    /\ env' = NoEnv
    /\ argv' = <<>>
    /\ now' = 0
    /\ params' = [none |-> TRUE]
    /\ calls' = <<>>
    /\ out' = <<>>
    /\ last' = NoCall
    /\ UNCHANGED <<accounts, deployed, keys, nextKey, runs>>

DirectDeleteKey == "deleteKey (called directly)"

\* deleteKey is called by no script: a caller builds an instance and calls it
CallDeleteKey ==
    /\ pc = "idle"
    /\ runs < MaxRuns
    /\ \E n \in NetworkChoices, id \in {"demo-contract", "creator.near"}, fault \in Faults :
         LET r == deleteKey([World EXCEPT !.calls = <<>>, !.out = <<>>],
                            n, NearConfig(n), Str(id), fault)
         IN  /\ env' = EnvOf(n, Undefined, Undefined, Undefined, Undefined, Undefined,
                             Undefined, Undefined)
             /\ argv' = <<id>>
             /\ Effect(r)
             /\ out' = r.w.out
             /\ last' = Invocation("deleteKey", r, fault)
    /\ script' = DirectDeleteKey
    /\ now' = 0
    /\ params' = [none |-> TRUE]
    /\ pc' = "done"
    /\ runs' = runs + 1

Next ==
    Launch \/ Guard \/ Resolve \/ Call \/ Start \/ Report \/ Settle \/ Exit \/ CallDeleteKey

Spec == Init /\ [][Next]_vars

----------------------------------------------------------------------------
(* Properties *)

\* the positions of the calls of the current run that carry one of the names
CallsNamed(names) == { i \in 1..Len(calls) : calls[i].op \in names }

\* calls that change the chain
MutatingOps == {"create_account", "deployContract", "deleteAccount", "new",
                "mint_rock", "change_treasury"}

\* the script's awaited method has run
MethodRan(method) == pc \in {"report", "done"} /\ last.method = method

\* NETWORK names an entry of near.config.js
Recognised(n) == n.t = "string" /\ n.v \in NetworkEntries

\* C1 (as stated): a script whose NETWORK has no entry in the network
\* configuration stops at its guard: it never gets past it and issues no call
\* (no connect, no account or contract call, no key-store access).
C1_UnrecognisedNetworkStops ==
    (script \in Scripts \ {RockDeploy, RockDelete} /\ ~Recognised(env.NETWORK)) =>
        calls = <<>>

DeployScripts == {HolderDeploy, EnvUpgrade, EnvDeploy0, EnvDeploy}

\* scripts whose class has deploy(..., isRunInit)
FlaggedDeployScripts == {HolderDeploy, EnvUpgrade}

DeployedBinary == \E i \in CallsNamed({"deployContract"}) : calls[i].ok

\* C2 (amended): a deploy that takes the run-init flag issues 'new' exactly
\* when the flag is true and its deployContract call succeeded, and with the
\* flag false deployContract is its only mutating call; the deploy that takes
\* no flag issues 'new' after every successful deployContract.
C2_InitFollowsFlag ==
    (MethodRan("deploy") /\ script \in DeployScripts) =>
        LET asked == IF script \in FlaggedDeployScripts THEN params.isRunInit ELSE TRUE
        IN  /\ (CallsNamed({"new"}) # {}) <=> (asked /\ DeployedBinary)
            /\ ~asked => /\ CallsNamed(MutatingOps) = CallsNamed({"deployContract"})
                         /\ Cardinality(CallsNamed({"deployContract"})) <= 1

\* C2 witness: the upgrade script's deploy replaced the binary and issued no 'new'
C2_Witness ==
    /\ MethodRan("deploy") /\ script = EnvUpgrade
    /\ ~params.isRunInit
    /\ DeployedBinary
    /\ CallsNamed({"new"}) = {}

\* C2 (as stated): whatever the deploy implementation, 'new' is issued only
\* when a run-init flag was passed as true.
C2_InitOnlyWhenFlagTrue ==
    (MethodRan("deploy") /\ script \in DeployScripts /\ CallsNamed({"new"}) # {}) =>
        ("isRunInit" \in DOMAIN params /\ params.isRunInit)


\* the script has resolved the parameter
HasParam(name) == pc \in {"call", "report", "done"} /\ name \in DOMAIN params

\* process.argv[i + 1] is there and is not the empty string
Given(i) == i <= Len(argv) /\ argv[i] # ""

\* positional argument, else environment variable, else default
Chain(i, e, d) == IF Given(i) THEN Str(argv[i]) ELSE IF e.t = "string" THEN e ELSE d

\* process.argv[i + 1] as it is
Positional(i) == IF i <= Len(argv) THEN Str(argv[i]) ELSE Undefined

\* C3 (amended): a parameter read as argv[i] || env.X || default resolves to
\* the positional argument when it is given and not empty, else to the
\* environment variable when set, else to the default ("" for text, the
\* literal 0 where the script writes one); a parameter read without fallback
\* is the positional argument as it is, undefined when absent; a numeric
\* parameter parsed from "" is NaN.
C3_ResolutionOrder ==
    /\ (script = HolderDeploy /\ HasParam("adminID")) =>
          /\ params.adminID = Chain(3, env.ADMIN_ID, Str(""))
          /\ params.operatorID = Chain(4, env.OPERATOR_ID, Str(""))
          /\ params.treasuryID = Chain(5, env.TREASURY_ID, Str(""))
    /\ (script = EnvUpgrade /\ HasParam("adminID")) =>
          /\ params.adminID = Chain(4, env.ADMIN_ID, Str(""))
          /\ params.operatorID = Chain(5, env.OPERATOR_ID, Str(""))
          /\ params.treasuryID = Chain(6, env.TREASURY_ID, Str(""))
    /\ (script = HolderDeploy /\ HasParam("rockPurchaseFee")) =>
          /\ params.initIMOFee = Chain(6, env.INIT_IMO_FEE, Str(""))
          /\ params.rockPurchaseFee = Chain(7, env.ROCK_PURCHASE_FEE, Str(""))
    /\ (script = EnvUpgrade /\ HasParam("tokenPrice")) =>
          params.tokenPrice = Chain(7, env.TOKEN_PRICE, Num("0"))
    /\ (script \in {HolderDeploy, EnvUpgrade} /\ HasParam("wasmFile")) =>
          /\ params.wasmFile = Positional(1)
          /\ params.contractAccountID = Positional(2)
    /\ (script = HolderMintRock /\ HasParam("signerId")) =>
          params.signerId = Positional(5)
    /\ (script = HolderDeploy /\ HasParam("rock_purchase_fee")) =>
          /\ params.rockPurchaseFee = Str("") => params.rock_purchase_fee = NaN
          /\ params.rockPurchaseFee = Str("5") => params.rock_purchase_fee = Num("5")

\* C3 witness: an empty positional argument gave way to the environment
\* variable, and the fee parsed from "" is NaN
C3_Witness ==
    /\ script = HolderDeploy /\ HasParam("rock_purchase_fee")
    /\ Len(argv) >= 3 /\ argv[3] = ""
    /\ env.ADMIN_ID = Str("alice") /\ params.adminID = Str("alice")
    /\ params.rockPurchaseFee = Str("") /\ params.rock_purchase_fee = NaN

\* C3 (as stated): every parameter is the positional argument when present,
\* else the environment variable when set, else "" (text) or zero (numeric),
\* parameters without fallback and numbers parsed from "" included.
C3_PositionalEnvDefault ==
    /\ (script = HolderDeploy /\ HasParam("adminID")) =>
          params.adminID = IF 3 <= Len(argv) THEN Str(argv[3])
                           ELSE IF env.ADMIN_ID.t = "string" THEN env.ADMIN_ID ELSE Str("")
    /\ (script = HolderDeploy /\ HasParam("wasmFile")) =>
          params.wasmFile = IF 1 <= Len(argv) THEN Str(argv[1]) ELSE Str("")
    /\ (script = HolderDeploy /\ HasParam("rock_purchase_fee")
          /\ params.rockPurchaseFee = Str("")) => params.rock_purchase_fee = Num("0")

\* the example scenario, with the metadata file argument the script needs
ExampleArgv == <<"main.wasm", "demo-contract", "", "", "", "", "", "", "meta.json">>

ExampleEnv ==
    /\ env.NETWORK = Str("testnet")
    /\ env.ADMIN_ID = Str("alice")
    /\ env.OPERATOR_ID = Str("bob")
    /\ env.TREASURY_ID = Str("carol")

\* the calls of the run that are neither connect nor loading an account
Outbound == SelectSeq(calls, LAMBDA c : c.op \notin {"connect", "account"})

IsExampleInit(c) ==
    /\ c.op = "new" /\ c.target = Str("demo-contract")
    /\ c.args.admin_id = Str("alice")
    /\ c.args.operator_id = Str("bob")
    /\ c.args.treasury_id = Str("carol")

IsExampleDeploy(c) == c.op = "deployContract" /\ c.target = Str("demo-contract")

\* C4 (amended): the rockNFTCollectionHolder deploy script, run on testnet
\* with [wasmPath, "demo-contract", "", ..., "", metadataFile] and ADMIN_ID,
\* OPERATOR_ID, TREASURY_ID = alice, bob, carol, issues at most one
\* deployContract against demo-contract and, only after it succeeded, one
\* 'new' with admin_id alice, operator_id bob, treasury_id carol; it issues
\* both when the account exists, its key is stored and no step fails.
C4_ExampleWithMetadataFile ==
    (script = HolderDeploy /\ ExampleEnv /\ argv = ExampleArgv /\ MethodRan("deploy")) =>
        /\ \/ Outbound = <<>>
           \/ Len(Outbound) = 1 /\ IsExampleDeploy(Outbound[1]) /\ ~Outbound[1].ok
           \/ /\ Len(Outbound) = 2
              /\ IsExampleDeploy(Outbound[1]) /\ Outbound[1].ok
              /\ IsExampleInit(Outbound[2])
        /\ ( /\ last.fault = "none"
             /\ <<"testnet", "demo-contract">> \in last.accountsBefore
             /\ <<"testnet", "demo-contract">> \in DOMAIN last.keysBefore ) =>
                (Len(Outbound) = 2 /\ Outbound[2].ok)

\* C4 witness: the example run issued the deploy and then the init call
C4_Witness ==
    /\ script = HolderDeploy /\ ExampleEnv /\ argv = ExampleArgv /\ MethodRan("deploy")
    /\ Len(Outbound) = 2
    /\ IsExampleDeploy(Outbound[1]) /\ IsExampleInit(Outbound[2]) /\ Outbound[2].ok

\* C4 (as stated): a deploy script run on testnet with exactly [wasmPath,
\* "demo-contract"] and ADMIN_ID, OPERATOR_ID, TREASURY_ID = alice, bob, carol
\* issues one deployContract against demo-contract and then one 'new' with
\* those identities (the account exists, its key is stored, no step fails).
C4_ExampleAsStated ==
    ( /\ script \in DeployScripts /\ ExampleEnv /\ argv = <<"main.wasm", "demo-contract">>
      /\ pc = "done" /\ last.fault = "none"
      /\ <<"testnet", "demo-contract">> \in accounts
      /\ <<"testnet", "demo-contract">> \in DOMAIN keys ) =>
        /\ Len(Outbound) = 2
        /\ IsExampleDeploy(Outbound[1]) /\ IsExampleInit(Outbound[2])


\* the key-store slot of the account the create script asked for
NewAccountSlot == <<Config.networkId, Text(params.contractAccountId)>>

\* C5: when createAccount returns normally, the key store holds under
\* (network id of the profile, newAccountId) the keypair generated in that
\* invocation, a keypair no entry held before, and its public key is the
\* new_public_key of the invocation's create_account call.
C5_StoredKeyIsTheFreshOne ==
    (MethodRan("createAccount") /\ last.status = "returned") =>
        /\ NewAccountSlot \in DOMAIN keys
        /\ keys[NewAccountSlot] = last.keyPair
        /\ \A k \in DOMAIN last.keysBefore : last.keysBefore[k] # keys[NewAccountSlot]
        /\ \E i \in CallsNamed({"create_account"}) :
             /\ calls[i].ok
             /\ calls[i].args.new_account_id = params.contractAccountId
             /\ calls[i].args.new_public_key = "ed25519:" \o ToString(keys[NewAccountSlot])

\* C5 witness: a create script's createAccount returned normally
C5_Witness ==
    /\ MethodRan("createAccount") /\ last.status = "returned"
    /\ NewAccountSlot \notin DOMAIN last.keysBefore
    /\ NewAccountSlot \in DOMAIN keys

\* C6: createAccount for an account id that already exists fails at its
\* create_account call and the failure reaches the caller as a throw; the
\* chain and the key store are left as they were.
C6_SecondCreateThrows ==
    (MethodRan("createAccount") /\ NewAccountSlot \in last.accountsBefore) =>
        /\ last.status = "threw"
        /\ \A i \in CallsNamed({"create_account"}) : ~calls[i].ok
        /\ accounts = last.accountsBefore
        /\ keys = last.keysBefore

\* C6 witness: the second createAccount for an id an earlier createAccount
\* created and stored the key of; its create_account call was refused
C6_Witness ==
    /\ MethodRan("createAccount") /\ last.status = "threw"
    /\ NewAccountSlot \in last.accountsBefore \ InitialAccounts
    /\ NewAccountSlot \in DOMAIN last.keysBefore
    /\ CallsNamed({"create_account"}) # {}

\* C7: a deployContract call succeeds only against an account that exists
\* on-chain when the invocation runs, and a signed call succeeds only when
\* the key store holds a keypair for the signer at that moment.
C7_SuccessNeedsAccountAndKey ==
    \A i \in 1..Len(calls) :
        calls[i].ok =>
            /\ calls[i].op = "deployContract" =>
                  <<Config.networkId, Text(calls[i].target)>> \in last.accountsBefore
            /\ calls[i].signer # Undefined =>
                  <<Config.networkId, Text(calls[i].signer)>> \in DOMAIN last.keysBefore

\* C7 witness: a deploy whose deployContract and signed 'new' both succeeded
C7_Witness ==
    /\ MethodRan("deploy") /\ DeployedBinary
    /\ \E i \in CallsNamed({"new"}) : calls[i].ok /\ calls[i].signer # Undefined

\* C8 (as stated): deleteAccount never propagates an exception to its caller,
\* whichever of its steps fails.
C8_DeleteAccountNeverThrows ==
    (MethodRan("deleteAccount") /\ script \in {HolderDelete, EnvDelete}) =>
        last.status = "returned"

\* a step that is a direct call of deleteKey
DeleteKeyStep == script' = DirectDeleteKey /\ runs' = runs + 1

\* C9: deleteAccount leaves the key store unchanged; deleteKey leaves the
\* chain unchanged and issues no mutating call; a key-store entry goes away
\* only by a deleteKey for it; no step of a script removes an entry.
C9_DeletionAndKeyRemovalIndependent ==
    [][ /\ (pc = "call" /\ script \in {HolderDelete, EnvDelete, RockDelete}) => keys' = keys
        /\ DeleteKeyStep =>
              /\ accounts' = accounts /\ deployed' = deployed
              /\ \A i \in 1..Len(calls') : calls'[i].op \notin MutatingOps
        /\ \A k \in DOMAIN keys :
              k \notin DOMAIN keys' =>
                 /\ DeleteKeyStep
                 /\ k = <<NearConfig(env'.NETWORK).networkId, argv'[1]>>
        /\ script' \in Scripts => DOMAIN keys \subseteq DOMAIN keys'
      ]_vars

\* C9 witness: a delete-account script deleted the account on-chain and the
\* account's key entry is still in the key store
C9_Witness ==
    /\ MethodRan("deleteAccount") /\ script \in {HolderDelete, EnvDelete}
    /\ \E i \in CallsNamed({"deleteAccount"}) : calls[i].ok
    /\ <<Config.networkId, Text(params.deletedAccount)>> \in last.accountsBefore \ accounts
    /\ <<Config.networkId, Text(params.deletedAccount)>> \in DOMAIN keys

\* C10 (as stated): in deploy, the invoker methods, createAccount and
\* deleteKey, a failing step is caught inside the method: the method returns
\* normally with an absent result.
C10_FailuresSwallowed ==
    ( /\ pc \in {"report", "done"}
      /\ last.method \in {"deploy", "mintRock", "changeTreasury", "createAccount", "deleteKey"}
      /\ script # RockDeploy
      /\ \E i \in 1..Len(calls) : ~calls[i].ok ) =>
        (last.status = "returned" /\ last.value = Undefined)

\* the method whitelist of the proxy a contract call goes through
Declared(c) == c.views \cup c.changes

\* calls made through a Contract proxy
ProxyCalls == { i \in 1..Len(calls) : Declared(calls[i]) # {} }

\* C11 (as stated): every contract call goes through a proxy whose whitelist
\* (view methods plus change methods) holds exactly the method that is called.
C11_ProxyDeclaresOnlyCalledMethod ==
    \A i \in ProxyCalls : Declared(calls[i]) = {calls[i].op}

\* the methods that call a contract method and hand nothing else back
InvokerMethods == {"mintRock", "changeTreasury", "get"}

\* C12 (as stated): an invoker method returns the decoded response of its
\* remote call when the call succeeds, and an absent value when it fails.
C12_ReturnsResponse ==
    (pc \in {"report", "done"} /\ last.method \in InvokerMethods) =>
        \A i \in ProxyCalls :
            last.value = IF calls[i].ok THEN Decoded(calls[i]) ELSE Undefined

\* both metadata files the environmentsNFT upgrade script parses are readable JSON
UpgradeFilesParse == ParsesAsJson(Positional(3)) /\ ParsesAsJson(Positional(9))

InvokerScripts == {HolderDeploy, EnvDeploy0, EnvDeploy, EnvUpgrade,
                   HolderMintRock, EnvSetTreasury, EnvGetAdmin}

KeyStoreOps == {"setKey", "removeKey"}

\* C14: deploy, init and the contract-invoker methods leave the key store as
\* it is, in success and in failure: no entry is added, replaced or removed,
\* and no key-store operation is issued.
C14_InvokerLeavesKeyStore ==
    [][ (pc = "call" /\ script \in InvokerScripts) =>
            /\ keys' = keys
            /\ nextKey' = nextKey
            /\ \A i \in 1..Len(calls') : calls'[i].op \notin KeyStoreOps
      ]_vars

\* C14 witness: a mintRock whose mint_rock call succeeded, the key store
\* being what it was before
C14_Witness ==
    /\ MethodRan("mintRock")
    /\ \E i \in CallsNamed({"mint_rock"}) : calls[i].ok
    /\ keys = last.keysBefore

\* C15 (as stated): every operation a script starts has run to completion
\* before the script's next statement runs and before its body is left.
C15_EveryOperationAwaited ==
    pc \in {"report", "done"} => last.status # "pending"

\* the slot of the account a deploy script deploys to
DeployTargetSlot == <<Config.networkId, Text(params.contractAccountID)>>

\* C16: when the init call fails after the binary was deployed, the failed
\* 'new' is the last call of the run, the binary was pushed once and stays
\* deployed; when createAccount throws after its create_account call
\* succeeded, nothing but the failed key-store write follows that call and
\* the account stays created.  No deletion, re-deploy or retry is issued.
C16_NoRollback ==
    /\ (MethodRan("deploy") /\ script \in DeployScripts /\ DeployedBinary) =>
          \A j \in CallsNamed({"new"}) :
              ~calls[j].ok =>
                 /\ j = Len(calls)
                 /\ Cardinality(CallsNamed({"deployContract"})) = 1
                 /\ CallsNamed({"deleteAccount"}) = {}
                 /\ DeployTargetSlot \in deployed
    /\ (MethodRan("createAccount") /\ last.status = "threw") =>
          \A i \in CallsNamed({"create_account"}) :
              calls[i].ok =>
                 /\ \A j \in (i + 1)..Len(calls) : calls[j].op = "setKey" /\ ~calls[j].ok
                 /\ Len(calls) <= i + 1
                 /\ NewAccountSlot \in accounts

\* C16 witness: a holder deploy whose binary was deployed and whose init
\* call then failed
C16_Witness ==
    /\ script = HolderDeploy /\ MethodRan("deploy") /\ DeployedBinary
    /\ \E j \in CallsNamed({"new"}) : ~calls[j].ok /\ j = Len(calls)
    /\ DeployTargetSlot \in deployed

\* the deploy scripts that check the contract-metadata file argument
MetadataCheckScripts == {RockDeploy, HolderDeploy}

\* the run is past the check of the contract-metadata file argument, which
\* was absent
MetadataFileAbsent ==
    /\ script \in MetadataCheckScripts
    /\ pc \in {"call", "report", "done"}
    /\ HasParam("contractMetadataFile")
    /\ params.contractMetadataFile = Str("")

CreateScripts == {HolderCreate, EnvCreate}

\* the invocation the README documents:
\* 1.0_createaccountcontract.ts contract_name account_contractId deposit_amount
DocumentedCreate == script \in CreateScripts /\ Len(argv) = 3

\* C18: a create-account script invoked with the three documented positional
\* arguments contract_name, account_contractId, deposit_amount attaches
\* deposit_amount, the third positional argument, to its create_account call.
C18_DocumentedDepositAttached ==
    (DocumentedCreate /\ MethodRan("createAccount")) =>
        \A i \in CallsNamed({"create_account"}) :
            calls[i].args.attachedDeposit = parseNearAmount(Positional(3))

\* C19: within one deploy invocation a 'new' call comes only right after a
\* deployContract call of that invocation, to the same account, that
\* succeeded; when connecting, loading the account, reading the binary or
\* the deployContract call fails, no 'new' call is issued.
C19_InitOnlyAfterDeployedBinary ==
    (MethodRan("deploy") /\ script \in DeployScripts) =>
        /\ \A j \in CallsNamed({"new"}) :
              /\ j > 1
              /\ calls[j - 1].op = "deployContract"
              /\ calls[j - 1].ok
              /\ calls[j - 1].target = calls[j].target
        /\ ( \/ last.fault \in {"connect", "account", "call"}
             \/ ~Readable(params.wasmFile)
             \/ ~DeployedBinary ) =>
                CallsNamed({"new"}) = {}

\* C19 witness: a deploy of the flagless environment class whose
\* deployContract call was issued and failed, and which issued no 'new'
C19_Witness ==
    /\ script = EnvDeploy0 /\ MethodRan("deploy")
    /\ \E i \in CallsNamed({"deployContract"}) : ~calls[i].ok /\ i = Len(calls)
    /\ CallsNamed({"new"}) = {}

\* C20: once a createAccount invocation has finished, returned or thrown,
\* and its create_account call succeeded, the key store holds the keypair
\* generated for the new account.
C20_CreatedAccountKeyKept ==
    ( /\ MethodRan("createAccount") /\ script \in CreateScripts
      /\ \E i \in CallsNamed({"create_account"}) : calls[i].ok ) =>
        /\ NewAccountSlot \in DOMAIN keys
        /\ keys[NewAccountSlot] = last.keyPair

\* the create_account call of the invocation was issued and failed
CreateCallFailed ==
    /\ MethodRan("createAccount")
    /\ \E i \in CallsNamed({"create_account"}) : ~calls[i].ok

\* C21: when the create_account call of createAccount fails, the key store
\* is what it was before the invocation: no entry is added, none is removed,
\* and an entry the account id already had keeps its keypair instead of the
\* one generated in this invocation.
C21_FailedCreateLeavesKeyStore ==
    CreateCallFailed =>
        /\ keys = last.keysBefore
        /\ last.status = "threw"
        /\ CallsNamed(KeyStoreOps) = {}
        /\ \A k \in DOMAIN keys : keys[k] # last.keyPair

\* C21 witness: create_account was refused for an account id that already
\* had a key-store entry, and the entry still holds its earlier keypair
C21_Witness ==
    /\ CreateCallFailed /\ script \in CreateScripts
    /\ NewAccountSlot \in DOMAIN last.keysBefore
    /\ NewAccountSlot \in DOMAIN keys
    /\ keys[NewAccountSlot] = last.keysBefore[NewAccountSlot]
    /\ keys[NewAccountSlot] # last.keyPair
    /\ nextKey = last.keyPair + 1

\* the scripts that read a value through get(method, ...)
GetScripts == {EnvGetAdmin, EnvGetMaxSupply}

\* C22: the view call issued by get(method, contractAccountId, signerId)
\* carries the method name the script passed as method.
C22_GetCallsNamedMethod ==
    (script \in GetScripts /\ MethodRan("get")) =>
        \A i \in ProxyCalls : calls[i].op = Text(params.method)

\* C23: every create_account call is submitted with the gas budget
\* 300000000000000, whichever createAccount implementation issues it and
\* however the script calls it.
C23_CreateGasFixed ==
    \A i \in CallsNamed({"create_account"}) :
        calls[i].args.gas = Gas

\* C24: the numeric command-line parameters are read as base-10 integers:
\* the zone index and rock index of the mint-rock script and the fee and
\* holder size of the holder deploy script equal parseInt(argument, 10), and
\* that value is what the remote call carries.
C24_NumericParamsBase10 ==
    /\ (script = HolderMintRock /\ HasParam("zoneIndex")) =>
          /\ params.zoneIndex = ParseInt(Positional(2), 10)
          /\ params.rockIndex = ParseInt(Positional(3), 10)
          /\ \A i \in CallsNamed({"mint_rock"}) :
                /\ calls[i].args.zone_index = ParseInt(Positional(2), 10)
                /\ calls[i].args.rock_index = ParseInt(Positional(3), 10)
    /\ (script = HolderDeploy /\ HasParam("rock_purchase_fee")) =>
          /\ params.rock_purchase_fee = ParseInt(params.rockPurchaseFee, 10)
          /\ params.initIMONFTHolderSize = ParseInt(params.init_imo_nft_holder_size, 10)

\* the run ended at the network guard
StoppedAtGuard == pc = "done" /\ out = <<"wrong network">> /\ params = [none |-> TRUE]

\* C25: a script whose NETWORK has a profile in the network configuration
\* (testnet, mainnet, betanet, localnet) never stops at its network guard.
C25_ProfiledNetworkPassesGuard ==
    (script \in Scripts \ {RockDeploy, RockDelete} /\ Recognised(env.NETWORK)) =>
        ~StoppedAtGuard

\* the deploy scripts that read a metadata file before they call deploy()
MetadataDeployScripts == {RockDeploy, HolderDeploy, EnvDeploy, EnvUpgrade}

\* every metadata file the script reads is there and holds valid JSON
MetadataFilesParse ==
    CASE script = RockDeploy -> ParsesAsJson(Positional(8))
      [] script = HolderDeploy -> ParsesAsJson(Positional(9))
      [] script = EnvDeploy -> ParsesAsJson(Positional(3))
      [] script = EnvUpgrade -> ParsesAsJson(Positional(3)) /\ ParsesAsJson(Positional(9))
      [] OTHER -> TRUE

\* C26: a deploy script whose metadata file argument is missing, unreadable
\* or not valid JSON issues no outbound call: deploy() is never invoked, and
\* once past the network guard the run ends in the script's catch.
C26_BadMetadataNoCall ==
    (script \in MetadataDeployScripts /\ pc # "idle" /\ ~MetadataFilesParse) =>
        /\ calls = <<>>
        /\ last.method = "none"
        /\ pc \in {"guard", "args", "done"}
        /\ (pc = "done" /\ ~StoppedAtGuard) => out[Len(out)] = "script caught"

\* C26 witness: the environment deploy script given a token metadata file
\* that is readable but holds no valid JSON ended in its catch with no call
C26_Witness ==
    /\ script = EnvDeploy /\ pc = "done"
    /\ Readable(Positional(3)) /\ ~ParsesAsJson(Positional(3))
    /\ out = <<"script caught">>
    /\ calls = <<>>

\* the four arguments of the createNFT script are all there and not empty
CreateNFTArgsPresent == \A i \in 1..4 : Given(i)

\* C28: the createNFT script, run on testnet with contractAccountId,
\* signerId, receiverId and attachedDeposit all present, issues exactly one
\* nft_create call, to contractAccountId; it rejects its arguments, issuing
\* no call, exactly when one of the four is missing.
C28_CreateNFTCallsOnce ==
    (script = EnvCreateNFT /\ env.NETWORK = Str("testnet") /\ pc = "done") =>
        /\ (CreateNFTArgsPresent /\ last.fault = "none") =>
              /\ Cardinality(CallsNamed({"nft_create"})) = 1
              /\ \A i \in CallsNamed({"nft_create"}) : calls[i].target = Positional(1)
        /\ (last.method = "none" /\ calls = <<>>) <=> ~CreateNFTArgsPresent

\* the scripts that check contractAccountId and signerId before their call
ValidatingScripts == {EnvSetTreasury, EnvGetAdmin, EnvGetMaxSupply, EnvCreateNft}

\* of these, the scripts that read a metadata file before the check
ReadBeforeCheckScripts == {EnvCreateNft}

\* the run is past the guard of a validating script and contractAccountId or
\* signerId is missing
IdentityArgMissing ==
    /\ script \in ValidatingScripts
    /\ pc \in {"call", "report", "done"}
    /\ ~StoppedAtGuard
    /\ ~Given(1) \/ ~Given(2)

\* the script ended in its catch on Error("invalid arguments")
RejectedArguments == out = <<"Error: invalid arguments", "script caught">>

\* C27 (amended): a validating script whose contractAccountId or signerId is
\* missing issues no outbound call and runs no manager or invoker method; the
\* run ends in the script's catch, which only logs.  The error is "invalid
\* arguments", except in a script that reads its metadata file before the
\* check when that file is missing or does not parse: there the read fails
\* first and its error is the one logged.
C27_MissingIdentityNoCall ==
    IdentityArgMissing =>
        /\ calls = <<>>
        /\ last.method = "none"
        /\ pc = "done"
        /\ out[Len(out)] = "script caught"
        /\ RejectedArguments <=>
              (script \in ReadBeforeCheckScripts => ParsesAsJson(Positional(5)))

\* C27 witness: the create-nft script given an empty contractAccountId and a
\* metadata file that parses ended on "invalid arguments" with no call
C27_Witness ==
    /\ script = EnvCreateNft /\ IdentityArgMissing
    /\ ParsesAsJson(Positional(5))
    /\ RejectedArguments
    /\ calls = <<>>

\* C27 (as stated): a validating script whose contractAccountId or signerId
\* is missing always fails with "invalid arguments".
C27_AlwaysInvalidArguments ==
    IdentityArgMissing => (RejectedArguments /\ calls = <<>>)

\* C29: in the environmentsNFT upgrade script, when neither the token price
\* nor the max supply is given on the command line and TOKEN_PRICE is set,
\* max supply does not take the value of TOKEN_PRICE: the variable is the
\* fallback of token price only.
C29_MaxSupplyOwnFallback ==
    ( /\ script = EnvUpgrade /\ HasParam("maxSupply")
      /\ ~Given(7) /\ ~Given(8)
      /\ Truthy(env.TOKEN_PRICE) ) =>
        /\ params.tokenPrice = env.TOKEN_PRICE
        /\ params.maxSupply # env.TOKEN_PRICE

\* the deploy, delete-account and create-account scripts that end with a
\* success line
SuccessLineScripts == {RockDeploy, HolderDeploy, EnvDeploy0, EnvDeploy, EnvUpgrade,
                       HolderDelete, EnvDelete, RockDelete, HolderCreate, EnvCreate}

\* the script printed its success line
PrintedSuccess == \E i \in 1..Len(out) : out[i] = ReportOf(script)

\* a remote step of the invocation failed
SomeCallFailed == \E i \in 1..Len(calls) : ~calls[i].ok

\* C30: a deploy or delete-account script has printed its success line at
\* its end exactly when deploy() or deleteAccount() returned, which includes
\* the runs in which a remote step failed and was swallowed; a create-account
\* script has printed "Created contractAccountID" exactly when createAccount
\* returned without throwing, and then no step of it failed.
C30_SuccessLineFollowsReturn ==
    (script \in SuccessLineScripts /\ pc = "done") =>
        /\ PrintedSuccess <=> last.status = "returned"
        /\ PrintedSuccess => out[Len(out)] = ReportOf(script)
        /\ (last.method = "createAccount" /\ PrintedSuccess) => ~SomeCallFailed

\* C30 witness: a holder delete-account run whose deleteAccount call failed,
\* was swallowed, and was followed by the success line
C30_Witness ==
    /\ script = HolderDelete /\ pc = "done"
    /\ last.method = "deleteAccount" /\ last.status = "returned"
    /\ \E i \in CallsNamed({"deleteAccount"}) : ~calls[i].ok
    /\ out[Len(out)] = "Deleted contractAccountID"

====
